---- MODULE Spec2Model ----
(***************************************************************************)
(* Model of modem-ctl.c, the XMM6260 first-stage (PSI) firmware loader for *)
(* the Samsung I9100.  The program is one sequential run of main(): it     *)
(* acquires the image and the device handles, sequences link and chip      *)
(* power, performs the boot handshake, uploads the PSI with send_PSI and   *)
(* falls into the cleanup code at the label fail.                          *)
(*                                                                         *)
(* Every answer of the operating system (open, fstat, mmap, ioctl, select, *)
(* read, write) is an input chosen with \E in the action that makes the    *)
(* call.  Values the C code reads without having initialised them are      *)
(* chosen nondeterministically as well.                                    *)
(***************************************************************************)
EXTENDS Integers, Sequences, FiniteSets, TLC

VARIABLES
    pc,          \* position of the run in main() / send_PSI()
    radio_fd,    \* static int radio_fd
    boot_fd,     \* static int boot_fd
    link_fd,     \* static int link_fd
    radio_data,  \* static char *radio_data: "NULL", "MAP_FAILED" or "MAPPED"
    open_fds,    \* descriptors open in the process
    acquired,    \* resources main() acquired successfully
    ret,         \* send_PSI: int ret
    start,       \* send_PSI: size_t start (payload cursor)
    i,           \* send_PSI: loop counter of the 22-byte drain
    nwrites,     \* number of payload write() calls made so far
    sent,        \* number of payload bytes the channel accepted so far
    stage,       \* last state of the bring-up chain that was reached
    ctl,         \* device-control set-calls issued so far, in order
    lastcall,    \* the most recent device-control call and its outcome
    polls,       \* number of link-connected polls (saturates at MaxPolls)
    chan,        \* operations performed on the boot channel, in order
    rx,          \* buf of the most recent expect_data() that compared
    released,    \* release operations performed by the cleanup code
    cleanups,    \* number of times the cleanup code ran
    exit_status, \* <<v>> once main() returned v, <<>> while running
    nominal,     \* TRUE while every answer of the environment was the good one
    fin,         \* arguments of the helper function under evaluation
    fout         \* its result, NoResult before the evaluation

vars == <<pc, radio_fd, boot_fd, link_fd, radio_data, open_fds, acquired,
          ret, start, i, nwrites, sent, stage, ctl, lastcall, polls,
          chan, rx, released, cleanups, exit_status, nominal, fin, fout>>

resv == <<radio_fd, boot_fd, link_fd, radio_data, open_fds, acquired>>
psiv == <<ret, start, i, nwrites, sent>>
ctlv == <<ctl, lastcall, polls>>
chanv == <<chan, rx>>
endv == <<released, cleanups, exit_status>>
funv == <<fin, fout>>

(***************************************************************************)
(* Bounds of the model.                                                    *)
(***************************************************************************)
\* link-connected polls that are counted
MaxPolls == 2
\* payload writes after which the channel accepts the whole request
MaxPayloadWrites == 2
\* size in bytes of a partial payload write
PartialChunk == 32768

(***************************************************************************)
(* Program constants.                                                      *)
(***************************************************************************)
XMM_PSI_MAGIC == 48
\* i9100_radio_parts[PSI]
PSI_OFFSET == 0
PSI_LENGTH == 61440
\* sizeof(psi_header_t), packed: uint8 + uint16 + uint8
HDR_SIZE == 4
\* strlen("ATAT")
SYNC_SIZE == 4
\* number of drained acknowledgment bytes
DRAIN_COUNT == 22
\* value main() returns
EXIT_VALUE == 0

\* values a byte read from the channel, or an uninitialised byte, takes
Bytes == {0, 1, 2, 170, 255}
\* values an uninitialised int takes
UninitInts == {-1, 0, 1}
\* results of ioctl()
IoctlResults == {-1, 0}
\* results of ioctl(IOCTL_LINK_CONNECTED)
PollResults == {-1, 0, 1, 2}
\* results of select()
SelectResults == {-1, 0, 1}

ACK_BYTE == <<1>>
PSI_ACK == <<0, 170>>

NoResult == [kind |-> "none"]

Last(s) == s[Len(s)]
Min(a, b) == IF a < b THEN a ELSE b

(***************************************************************************)
(* size_t arithmetic.  A size_t value is kept as its two's complement      *)
(* representative, so (size_t)-1 is -1; comparison is unsigned.            *)
(***************************************************************************)
SizeLt(a, b) == IF (a < 0) = (b < 0) THEN a < b ELSE b < 0
SizeAdd(a, b) == a + b

(***************************************************************************)
(* IO helpers.                                                             *)
(***************************************************************************)
\* receive(): the select() result when select failed, else the read() result
receive(sel, rd) == IF sel < 0 THEN sel ELSE rd

\* memcmp() over the first n bytes: difference of the first differing pair
RECURSIVE memcmp_from(_, _, _, _)
memcmp_from(buf, data, k, n) ==
    IF k > n THEN 0
    ELSE IF buf[k] # data[k] THEN buf[k] - data[k]
    ELSE memcmp_from(buf, data, k + 1, n)
memcmp(buf, data, n) == memcmp_from(buf, data, 1, n)

\* expect_data(): buf holds the bytes read followed by uninitialised bytes
expect_data(sel, rd, buf, data, size) ==
    IF receive(sel, rd) < 0 THEN receive(sel, rd)
    ELSE memcmp(buf, data, size)

\* the channel log after a receive() of size bytes issued at site tag
ChanRead(tag, sel, rd, size) ==
    IF sel < 0 THEN chan
    ELSE Append(chan, [tag |-> tag, ok |-> (rd = size)])

ChanWrite(tag, ok) == Append(chan, [tag |-> tag, ok |-> ok])

\* the channel log after a payload write() of req bytes from cursor from
ChanPayload(from, req, ok) ==
    Append(chan, [tag |-> "payload", ok |-> ok, from |-> from, req |-> req])

(***************************************************************************)
(* Device control helpers.                                                 *)
(***************************************************************************)
\* i9100_ehci_setpower(): ret is never assigned when open() fails
i9100_ehci_setpower(opened, w, uninit) == IF opened THEN w ELSE uninit
\* the capability failed: the control could not be opened or took no byte
ehci_failed(opened, w) == ~opened \/ w <= 0

\* i9100_link_set_active(): two ioctls, the second skipped if the first fails
i9100_link_set_active(r1, r2) ==
    IF r1 < 0 THEN r1 ELSE IF r2 < 0 THEN r2 ELSE 0

\* xmm6260_setpower(): the result of the ioctl
xmm6260_setpower(r) == r

\* a failure path that returns at once instead of running the cleanup code
Goto_fail_Return == "return"
\* goto fail
Goto_fail == "fail"

\* a tolerant step handled like a fatal one
OnTolerant_Abort(res, next) == IF res < 0 THEN "fail" ELSE next
\* a bring-up step whose failure is only logged
OnTolerant(res, next) == next
\* a fatal step whose result is not tested
OnFatal_Ignore(res, next) == next
\* a bring-up step followed by `goto fail' on a negative result
OnFatal(res, next) == IF res < 0 THEN Goto_fail ELSE next

\* a poll loop that takes every nonzero result as connected
LinkPoll_Truthy(r) ==
    IF r < 0 THEN "abort" ELSE IF r # 0 THEN "ready" ELSE "again"
\* i9100_wait_link_ready(): what one query result does to the loop
LinkPoll(r) ==
    IF r < 0 THEN "abort" ELSE IF r = 1 THEN "ready" ELSE "again"

Call(op, res, failed) ==
    /\ ctl' = Append(ctl, op)
    /\ lastcall' = [op |-> op, res |-> res, failed |-> failed]

\* open(): the lowest descriptor that is not open
FreshFd(fds) == CHOOSE n \in 0..(Cardinality(fds)) :
                    /\ n \notin fds
                    /\ \A m \in 0..(n - 1) : m \in fds

Init ==
    /\ pc = "open_radio"
    /\ radio_fd = 0
    /\ boot_fd = 0
    /\ link_fd = 0
    /\ radio_data = "NULL"
    /\ open_fds = {0, 1, 2}
    /\ acquired = {}
    /\ ret = -1
    /\ start = 0
    /\ i = 0
    /\ nwrites = 0
    /\ sent = 0
    /\ stage = "Start"
    /\ ctl = <<>>
    /\ lastcall = [op |-> "none", res |-> 0, failed |-> FALSE]
    /\ polls = 0
    /\ chan = <<>>
    /\ rx = <<>>
    /\ released = <<>>
    /\ cleanups = 0
    /\ exit_status = <<>>
    /\ nominal = TRUE
    /\ fin = [kind |-> "none"]
    /\ fout = NoResult

(***************************************************************************)
(* main(): resource acquisition.                                           *)
(***************************************************************************)
OpenRadio ==
    /\ pc = "open_radio"
    /\ \E ok \in BOOLEAN :
        LET fd == IF ok THEN FreshFd(open_fds) ELSE -1 IN
        /\ radio_fd' = fd
        /\ open_fds' = IF ok THEN open_fds \cup {fd} ELSE open_fds
        /\ acquired' = IF ok THEN acquired \cup {"radio_fd"} ELSE acquired
        /\ pc' = IF fd < 0 THEN Goto_fail ELSE "fstat"
        /\ nominal' = (nominal /\ ok)
    /\ UNCHANGED <<boot_fd, link_fd, radio_data, psiv, stage, ctlv, chanv, endv>>
    /\ UNCHANGED funv

Fstat ==
    /\ pc = "fstat"
    /\ \E r \in {-1, 0} :
        /\ pc' = IF r < 0 THEN Goto_fail ELSE "mmap"
        /\ nominal' = (nominal /\ r = 0)
    /\ UNCHANGED <<resv, psiv, stage, ctlv, chanv, endv>>
    /\ UNCHANGED funv

Mmap ==
    /\ pc = "mmap"
    /\ \E ok \in BOOLEAN :
        /\ radio_data' = IF ok THEN "MAPPED" ELSE "MAP_FAILED"
        /\ acquired' = IF ok THEN acquired \cup {"radio_data"} ELSE acquired
        /\ pc' = IF ~ok THEN Goto_fail ELSE "open_boot"
        /\ stage' = IF ok THEN "ImageOpened" ELSE stage
        /\ nominal' = (nominal /\ ok)
    /\ UNCHANGED <<radio_fd, boot_fd, link_fd, open_fds, psiv, ctlv, chanv, endv>>
    /\ UNCHANGED funv

OpenBoot ==
    /\ pc = "open_boot"
    /\ \E ok \in BOOLEAN :
        LET fd == IF ok THEN FreshFd(open_fds) ELSE -1 IN
        /\ boot_fd' = fd
        /\ open_fds' = IF ok THEN open_fds \cup {fd} ELSE open_fds
        /\ acquired' = IF ok THEN acquired \cup {"boot_fd"} ELSE acquired
        /\ pc' = IF fd < 0 THEN Goto_fail ELSE "open_link"
        /\ nominal' = (nominal /\ ok)
    /\ UNCHANGED <<radio_fd, link_fd, radio_data, psiv, stage, ctlv, chanv, endv>>
    /\ UNCHANGED funv

OpenLink ==
    /\ pc = "open_link"
    /\ \E ok \in BOOLEAN :
        LET fd == IF ok THEN FreshFd(open_fds) ELSE -1 IN
        /\ link_fd' = fd
        /\ open_fds' = IF ok THEN open_fds \cup {fd} ELSE open_fds
        /\ acquired' = IF ok THEN acquired \cup {"link_fd"} ELSE acquired
        /\ pc' = IF fd < 0 THEN Goto_fail ELSE "chip_off"
        /\ stage' = IF ok THEN "ChannelsOpened" ELSE stage
        /\ nominal' = (nominal /\ ok)
    /\ UNCHANGED <<radio_fd, boot_fd, radio_data, psiv, ctlv, chanv, endv>>
    /\ UNCHANGED funv

(***************************************************************************)
(* main(): power and link sequencing.                                      *)
(***************************************************************************)
ChipOff ==
    /\ pc = "chip_off"
    /\ \E r \in IoctlResults :
        LET res == xmm6260_setpower(r) IN
        /\ Call("chip_power_off", res, res < 0)
        /\ pc' = OnTolerant(res, "link_inactive")
        /\ nominal' = (nominal /\ res >= 0)
    /\ UNCHANGED <<resv, psiv, stage, polls, chanv, endv>>
    /\ UNCHANGED funv

LinkInactive ==
    /\ pc = "link_inactive"
    /\ \E r1 \in IoctlResults, r2 \in IoctlResults :
        LET res == i9100_link_set_active(r1, r2) IN
        /\ Call("link_inactive", res, res < 0)
        /\ pc' = OnTolerant(res, "ehci_off")
        /\ nominal' = (nominal /\ res >= 0)
    /\ UNCHANGED <<resv, psiv, stage, polls, chanv, endv>>
    /\ UNCHANGED funv

EhciOff ==
    /\ pc = "ehci_off"
    /\ \E opened \in BOOLEAN, w \in {-1, 0, 1}, u \in UninitInts :
        LET res == i9100_ehci_setpower(opened, w, u) IN
        /\ Call("link_power_off", res, ehci_failed(opened, w))
        /\ pc' = OnTolerant(res, "link_active")
        /\ stage' = IF pc' = "link_active" THEN "PoweredDown" ELSE stage
        /\ nominal' = (nominal /\ ~ehci_failed(opened, w))
    /\ UNCHANGED <<resv, psiv, polls, chanv, endv>>
    /\ UNCHANGED funv

LinkActive ==
    /\ pc = "link_active"
    /\ \E r1 \in IoctlResults, r2 \in IoctlResults :
        LET res == i9100_link_set_active(r1, r2) IN
        /\ Call("link_active", res, res < 0)
        /\ pc' = OnTolerant(res, "ehci_on")
        /\ stage' = IF pc' = "ehci_on" THEN "LinkActive" ELSE stage
        /\ nominal' = (nominal /\ res >= 0)
    /\ UNCHANGED <<resv, psiv, polls, chanv, endv>>
    /\ UNCHANGED funv

EhciOn ==
    /\ pc = "ehci_on"
    /\ \E opened \in BOOLEAN, w \in {-1, 0, 1}, u \in UninitInts :
        LET res == i9100_ehci_setpower(opened, w, u) IN
        /\ Call("link_power_on", res, ehci_failed(opened, w))
        /\ pc' = OnFatal(res, "chip_on")
        /\ nominal' = (nominal /\ ~ehci_failed(opened, w))
    /\ UNCHANGED <<resv, psiv, stage, polls, chanv, endv>>
    /\ UNCHANGED funv

ChipOn ==
    /\ pc = "chip_on"
    /\ \E r \in IoctlResults :
        LET res == xmm6260_setpower(r) IN
        /\ Call("chip_power_on", res, res < 0)
        /\ pc' = OnFatal(res, "wait_link")
        /\ stage' = IF pc' = "wait_link" THEN "PoweredUp" ELSE stage
        /\ nominal' = (nominal /\ res >= 0)
    /\ UNCHANGED <<resv, psiv, polls, chanv, endv>>
    /\ UNCHANGED funv

\* one iteration of the loop of i9100_wait_link_ready(), and main()'s test
WaitLink ==
    /\ pc = "wait_link"
    /\ \E r \in PollResults :
        /\ polls' = Min(polls + 1, MaxPolls)
        /\ lastcall' = [op |-> "link_connected", res |-> r, failed |-> (r < 0)]
        /\ pc' = IF LinkPoll(r) = "again" THEN "wait_link"
                 ELSE OnFatal(IF LinkPoll(r) = "abort" THEN r ELSE 0,
                              "write_sync")
        /\ stage' = IF pc' = "write_sync" THEN "LinkReady" ELSE stage
        /\ nominal' = (nominal /\ r \in {0, 1})
    /\ UNCHANGED <<resv, psiv, ctl, chanv, endv>>
    /\ UNCHANGED funv

(***************************************************************************)
(* main(): boot handshake.                                                 *)
(***************************************************************************)
WriteSync ==
    /\ pc = "write_sync"
    /\ \E r \in -1..SYNC_SIZE :
        /\ chan' = ChanWrite("sync", r = SYNC_SIZE)
        /\ pc' = IF r # SYNC_SIZE THEN Goto_fail ELSE "recv_boot_ack"
        /\ nominal' = (nominal /\ r = SYNC_SIZE)
    /\ UNCHANGED <<resv, psiv, stage, ctlv, rx, endv>>
    /\ UNCHANGED funv

RecvBootAck ==
    /\ pc = "recv_boot_ack"
    /\ \E sel \in SelectResults, rd \in -1..1 :
        /\ chan' = ChanRead("id1", sel, rd, 1)
        /\ pc' = IF receive(sel, rd) < 0 THEN Goto_fail ELSE "recv_chip_ack"
        /\ nominal' = (nominal /\ sel >= 0 /\ rd = 1)
    /\ UNCHANGED <<resv, psiv, stage, ctlv, rx, endv>>
    /\ UNCHANGED funv

RecvChipAck ==
    /\ pc = "recv_chip_ack"
    /\ \E sel \in SelectResults, rd \in -1..1 :
        /\ chan' = ChanRead("id2", sel, rd, 1)
        /\ pc' = IF receive(sel, rd) < 0 THEN Goto_fail ELSE "psi_header"
        /\ stage' = IF pc' = "psi_header" THEN "Handshaked" ELSE stage
        /\ nominal' = (nominal /\ sel >= 0 /\ rd = 1)
    /\ UNCHANGED <<resv, psiv, ctlv, rx, endv>>
    /\ UNCHANGED funv

(***************************************************************************)
(* send_PSI().  Every `goto fail' of send_PSI returns ret to main(), which *)
(* is the position "psi_return".                                           *)
(***************************************************************************)
\* results of a payload write() of req bytes
PayloadResults(req) ==
    IF nwrites < MaxPayloadWrites THEN {-1, 0, Min(PartialChunk, req), req}
    ELSE {req}

SendHeader ==
    /\ pc = "psi_header"
    /\ \E r \in -1..HDR_SIZE :
        /\ ret' = r
        /\ chan' = ChanWrite("hdr", r = HDR_SIZE)
        /\ start' = PSI_OFFSET
        /\ pc' = IF r # HDR_SIZE THEN "psi_return" ELSE "psi_payload"
        /\ nominal' = (nominal /\ r = HDR_SIZE)
    /\ UNCHANGED <<resv, i, nwrites, sent, stage, ctlv, rx, endv>>
    /\ UNCHANGED funv

\* one iteration of the payload loop: write() always asks for end - offset
\* bytes, and written is a size_t, so the test written < 0 never holds
PayloadWrite ==
    /\ pc = "psi_payload"
    /\ SizeLt(start, SizeAdd(PSI_LENGTH, PSI_OFFSET))
    /\ LET end == SizeAdd(PSI_LENGTH, PSI_OFFSET)
           req == end - PSI_OFFSET IN
       \E written \in PayloadResults(req) :
        /\ start' = SizeAdd(start, written)
        /\ nwrites' = nwrites + 1
        /\ sent' = sent + (IF written > 0 THEN written ELSE 0)
        /\ chan' = ChanPayload(start, req, written >= 0)
        /\ nominal' = (nominal /\ written = req)
    /\ UNCHANGED <<pc, resv, ret, i, stage, ctlv, rx, endv>>
    /\ UNCHANGED funv

PayloadDone ==
    /\ pc = "psi_payload"
    /\ ~SizeLt(start, SizeAdd(PSI_LENGTH, PSI_OFFSET))
    /\ pc' = "psi_crc"
    /\ UNCHANGED <<resv, psiv, stage, ctlv, chanv, endv, nominal>>
    /\ UNCHANGED funv

SendCrc ==
    /\ pc = "psi_crc"
    /\ \E r \in -1..1 :
        /\ ret' = r
        /\ chan' = ChanWrite("crc", r = 1)
        /\ i' = 0
        /\ pc' = IF r < 1 THEN "psi_return" ELSE "psi_drain"
        /\ nominal' = (nominal /\ r = 1)
    /\ UNCHANGED <<resv, start, nwrites, sent, stage, ctlv, rx, endv>>
    /\ UNCHANGED funv

\* one iteration of the drain loop; ret keeps the result of the crc write
DrainRead ==
    /\ pc = "psi_drain"
    /\ i < DRAIN_COUNT
    /\ \E sel \in SelectResults, rd \in -1..1 :
        /\ chan' = ChanRead("drain", sel, rd, 1)
        /\ i' = IF receive(sel, rd) < 1 THEN i ELSE i + 1
        /\ pc' = IF receive(sel, rd) < 1 THEN "psi_return" ELSE "psi_drain"
        /\ nominal' = (nominal /\ sel >= 0 /\ rd = 1)
    /\ UNCHANGED <<resv, ret, start, nwrites, sent, stage, ctlv, rx, endv>>
    /\ UNCHANGED funv

DrainDone ==
    /\ pc = "psi_drain"
    /\ ~(i < DRAIN_COUNT)
    /\ pc' = "psi_first_ack"
    /\ UNCHANGED <<resv, psiv, stage, ctlv, chanv, endv, nominal>>
    /\ UNCHANGED funv

FirstAck ==
    /\ pc = "psi_first_ack"
    /\ \E sel \in SelectResults, rd \in -1..1, buf \in [1..1 -> Bytes] :
        /\ ret' = expect_data(sel, rd, buf, ACK_BYTE, 1)
        /\ chan' = ChanRead("ack1", sel, rd, 1)
        /\ rx' = IF receive(sel, rd) < 0 THEN <<>> ELSE buf
        /\ pc' = IF ret' < 0 THEN "psi_return" ELSE "psi_second_ack"
        /\ nominal' = (nominal /\ sel >= 0 /\ rd = 1 /\ buf = ACK_BYTE)
    /\ UNCHANGED <<resv, start, i, nwrites, sent, stage, ctlv, endv>>
    /\ UNCHANGED funv

\* the second confirmation; send_PSI returns 0 unless the result is negative
SecondAck ==
    /\ pc = "psi_second_ack"
    /\ \E sel \in SelectResults, rd \in -1..1, buf \in [1..1 -> Bytes] :
        LET r == expect_data(sel, rd, buf, ACK_BYTE, 1) IN
        /\ ret' = IF r < 0 THEN r ELSE 0
        /\ chan' = ChanRead("ack2", sel, rd, 1)
        /\ rx' = IF receive(sel, rd) < 0 THEN <<>> ELSE buf
        /\ pc' = "psi_return"
        /\ nominal' = (nominal /\ sel >= 0 /\ rd = 1 /\ buf = ACK_BYTE)
    /\ UNCHANGED <<resv, start, i, nwrites, sent, stage, ctlv, endv>>
    /\ UNCHANGED funv

(***************************************************************************)
(* main(): result of the upload, final acknowledgment, cleanup.            *)
(***************************************************************************)
PsiReturn ==
    /\ pc = "psi_return"
    /\ pc' = IF ret < 0 THEN Goto_fail ELSE "final_ack"
    /\ stage' = IF pc' = "final_ack" THEN "PSISent" ELSE stage
    /\ UNCHANGED <<resv, psiv, ctlv, chanv, endv, nominal>>
    /\ UNCHANGED funv

\* after a successful comparison main() falls through to the label fail
FinalAck ==
    /\ pc = "final_ack"
    /\ \E sel \in SelectResults, rd \in -1..2, buf \in [1..2 -> Bytes] :
        LET r == expect_data(sel, rd, buf, PSI_ACK, 2) IN
        /\ chan' = ChanRead("final", sel, rd, 2)
        /\ rx' = IF receive(sel, rd) < 0 THEN <<>> ELSE buf
        /\ pc' = IF r < 0 THEN Goto_fail ELSE "fail"
        /\ stage' = IF r < 0 THEN stage ELSE "PSIAccepted"
        /\ nominal' = (nominal /\ sel >= 0 /\ rd = 2 /\ buf = PSI_ACK)
    /\ UNCHANGED <<resv, psiv, ctlv, endv>>
    /\ UNCHANGED funv

\* cleanup code that closes boot_fd where it should close radio_fd
CleanupOps_WrongFd(data, lfd, rfd, bfd) ==
    (IF data # "MAP_FAILED"
        THEN <<[op |-> "munmap", res |-> "radio_data", arg |-> data]>>
        ELSE <<>>)
    \o (IF lfd >= 0
        THEN <<[op |-> "close", res |-> "link_fd", arg |-> lfd]>> ELSE <<>>)
    \o (IF bfd >= 0
        THEN <<[op |-> "close", res |-> "boot_fd", arg |-> bfd]>> ELSE <<>>)
    \o (IF bfd >= 0
        THEN <<[op |-> "close", res |-> "boot_fd", arg |-> bfd]>> ELSE <<>>)

\* the release operations of the code after the label fail, in order
CleanupOps(data, lfd, rfd, bfd) ==
    (IF data # "MAP_FAILED"
        THEN <<[op |-> "munmap", res |-> "radio_data", arg |-> data]>>
        ELSE <<>>)
    \o (IF lfd >= 0
        THEN <<[op |-> "close", res |-> "link_fd", arg |-> lfd]>> ELSE <<>>)
    \o (IF rfd >= 0
        THEN <<[op |-> "close", res |-> "radio_fd", arg |-> rfd]>> ELSE <<>>)
    \o (IF bfd >= 0
        THEN <<[op |-> "close", res |-> "boot_fd", arg |-> bfd]>> ELSE <<>>)

\* cleanup code that also switches the chip off
Cleanup_PowerOff ==
    /\ pc = "fail"
    /\ LET ops == CleanupOps(radio_data, link_fd, radio_fd, boot_fd) IN
        /\ released' = released \o ops
        /\ open_fds' = open_fds \
              {ops[k].arg : k \in {j \in 1..Len(ops) : ops[j].op = "close"}}
    /\ cleanups' = cleanups + 1
    /\ pc' = "return"
    /\ ctl' = Append(ctl, "chip_power_off")
    /\ UNCHANGED <<radio_fd, boot_fd, link_fd, radio_data, acquired, psiv,
                   stage, lastcall, polls, chanv, exit_status, nominal>>
    /\ UNCHANGED funv

Cleanup ==
    /\ pc = "fail"
    /\ LET ops == CleanupOps(radio_data, link_fd, radio_fd, boot_fd) IN
        /\ released' = released \o ops
        /\ open_fds' = open_fds \
              {ops[k].arg : k \in {j \in 1..Len(ops) : ops[j].op = "close"}}
    /\ cleanups' = cleanups + 1
    /\ pc' = "return"
    /\ UNCHANGED <<radio_fd, boot_fd, link_fd, radio_data, acquired, psiv,
                   stage, ctlv, chanv, exit_status, nominal>>
    /\ UNCHANGED funv

Return ==
    /\ pc = "return"
    /\ exit_status' = <<EXIT_VALUE>>
    /\ pc' = "exit"
    /\ UNCHANGED <<resv, psiv, stage, ctlv, chanv, released, cleanups, nominal>>
    /\ UNCHANGED funv

Next ==
    \/ OpenRadio
    \/ Fstat
    \/ Mmap
    \/ OpenBoot
    \/ OpenLink
    \/ ChipOff
    \/ LinkInactive
    \/ EhciOff
    \/ LinkActive
    \/ EhciOn
    \/ ChipOn
    \/ WaitLink
    \/ WriteSync
    \/ RecvBootAck
    \/ RecvChipAck
    \/ SendHeader
    \/ PayloadWrite
    \/ PayloadDone
    \/ SendCrc
    \/ DrainRead
    \/ DrainDone
    \/ FirstAck
    \/ SecondAck
    \/ PsiReturn
    \/ FinalAck
    \/ Cleanup
    \/ Return

Spec == Init /\ [][Next]_vars

(***************************************************************************)
(* The firmware layout, the PSI header and the checksum, evaluated on      *)
(* their own: FunInit draws the arguments, one action applies the helper.  *)
(***************************************************************************)
\* longest image buffer the checksum is evaluated on
MaxImage == 3
\* RADIO_MAP_SIZE, 16 << 20
RADIO_MAP_SIZE == 16777216
\* number of values of a uint16_t
UINT16_RANGE == 65536

\* i9100_radio_parts[]
i9100_radio_parts ==
    [PSI |-> [offset |-> PSI_OFFSET, length |-> PSI_LENGTH],
     EBL |-> [offset |-> 61440, length |-> 102400],
     SECURE_IMAGE |-> [offset |-> 10483712, length |-> 2048],
     FIRMWARE |-> [offset |-> 163840, length |-> 10321920],
     NVDATA |-> [offset |-> 104885760, length |-> 2097152]]

\* a header whose length field is one byte wide
psi_header_Narrow(length) ==
    [magic |-> XMM_PSI_MAGIC, length |-> length % 256, padding |-> 0]

\* psi_header_t hdr = { .magic = XMM_PSI_MAGIC, .length = length }: the
\* size_t length is converted to the uint16_t field
psi_header(length) ==
    [magic |-> XMM_PSI_MAGIC, length |-> length % UINT16_RANGE, padding |-> 0]

\* exclusive or of two values of n bits
RECURSIVE XorBits(_, _, _)
XorBits(a, b, n) ==
    IF n = 0 THEN 0
    ELSE (((a % 2) + (b % 2)) % 2) + 2 * XorBits(a \div 2, b \div 2, n - 1)

\* a checksum that starts at the beginning of the buffer, not at offset
RECURSIVE crc_loop(_, _, _, _)
calculateCRC_NoOffset(data, offset, length) == crc_loop(data, 0, length, 0)

\* the loop of calculateCRC: while (length--) crc ^= *ptr++; data is
\* indexed from 1, ptr counts from 0
crc_loop(data, ptr, length, crc) ==
    IF length = 0 THEN crc
    ELSE crc_loop(data, ptr + 1, length - 1, XorBits(crc, data[ptr + 1], 8))

calculateCRC(data, offset, length) == crc_loop(data, offset, length, 0)

\* the length send_PSI builds the header from: size_t length =
\* i9100_radio_parts[PSI].length, a table the program never writes
HeaderLengths == {i9100_radio_parts.PSI.length}
\* bytes of the image buffers
ImageBytes == {0, 1, 2, 3, 255}
Images == UNION {[1..n -> ImageBytes] : n \in 0..MaxImage}

HeaderInputs == {[kind |-> "hdr", length |-> l] : l \in HeaderLengths}
CrcInputs ==
    {[kind |-> "crc", image |-> img, offset |-> o, length |-> l] :
        <<img, o, l>> \in
            {t \in Images \X (0..MaxImage) \X (0..MaxImage) :
                t[2] + t[3] <= Len(t[1])}}

FunInit ==
    /\ pc = "fun"
    /\ radio_fd = 0
    /\ boot_fd = 0
    /\ link_fd = 0
    /\ radio_data = "NULL"
    /\ open_fds = {0, 1, 2}
    /\ acquired = {}
    /\ ret = -1
    /\ start = 0
    /\ i = 0
    /\ nwrites = 0
    /\ sent = 0
    /\ stage = "Start"
    /\ ctl = <<>>
    /\ lastcall = [op |-> "none", res |-> 0, failed |-> FALSE]
    /\ polls = 0
    /\ chan = <<>>
    /\ rx = <<>>
    /\ released = <<>>
    /\ cleanups = 0
    /\ exit_status = <<>>
    /\ nominal = TRUE
    /\ fin \in HeaderInputs \cup CrcInputs
    /\ fout = NoResult

FunFrame ==
    UNCHANGED <<resv, psiv, stage, ctlv, chanv, endv, nominal, fin>>

\* send_PSI builds the header from the component length
BuildHeader ==
    /\ pc = "fun"
    /\ fin.kind = "hdr"
    /\ fout' = [kind |-> "hdr", hdr |-> psi_header(fin.length)]
    /\ pc' = "fun_done"
    /\ FunFrame

\* send_PSI computes the checksum byte it writes after the payload
ComputeCrc ==
    /\ pc = "fun"
    /\ fin.kind = "crc"
    /\ fout' = [kind |-> "crc",
                crc |-> calculateCRC(fin.image, fin.offset, fin.length)]
    /\ pc' = "fun_done"
    /\ FunFrame

FunNext ==
    \/ BuildHeader
    \/ ComputeCrc

FunSpec == FunInit /\ [][FunNext]_vars
(***************************************************************************)
(* Properties.                                                             *)
(***************************************************************************)
Resources == {"radio_fd", "radio_data", "boot_fd", "link_fd"}
TolerantSteps == {"chip_power_off", "link_inactive", "link_power_off",
                  "link_active"}
FatalSteps == {"link_power_on", "chip_power_on", "link_connected"}
BringUpOrder == <<"chip_power_off", "link_inactive", "link_power_off",
                  "link_active", "link_power_on", "chip_power_on">>
CleanupPositions == {"fail", "return", "exit"}

CountTag(t) == Cardinality({k \in 1..Len(chan) : chan[k].tag = t})
CountReleased(r) ==
    Cardinality({k \in 1..Len(released) : released[k].res = r})
Tags(c) == [k \in 1..Len(c) |-> c[k].tag]
Repeat(x, n) == [k \in 1..n |-> x]
IsPrefix(s, t) == Len(s) <= Len(t) /\ \A k \in 1..Len(s) : s[k] = t[k]
IsSuccessStatus(s) == Len(s) = 1 /\ s[1] = 0
IsFailureStatus(s) == Len(s) = 1 /\ s[1] # 0

\* the wire protocol of the boot channel with n payload writes
WireOrder(n) ==
    <<"sync", "id1", "id2", "hdr">> \o Repeat("payload", n) \o <<"crc">>
    \o Repeat("drain", DRAIN_COUNT) \o <<"ack1", "ack2", "final">>

\* header, payload, checksum, drain and both confirmations were all
\* performed and none of them met a channel error
PsiCompleted ==
    /\ \A k \in 1..Len(chan) :
          chan[k].tag \in {"hdr", "payload", "crc", "drain", "ack1", "ack2"}
              => chan[k].ok
    /\ CountTag("hdr") = 1
    /\ CountTag("payload") >= 1
    /\ CountTag("crc") = 1
    /\ CountTag("drain") = DRAIN_COUNT
    /\ CountTag("ack1") = 1
    /\ CountTag("ack2") = 1

\* C1: main() treats the upload as successful (and goes on to the final
\* read) only if the header write, the payload writes, the checksum write,
\* all 22 drain reads and both confirmation reads completed without a
\* channel error.
C1_SuccessOnlyIfComplete ==
    (stage \in {"PSISent", "PSIAccepted"} \/ CountTag("final") > 0)
        => PsiCompleted

\* C2: after the drain, send_PSI goes on past a confirmation read only if
\* the byte received was 0x01; any other received byte, smaller or greater,
\* makes the upload fail.
C2_ConfirmationMismatchFails ==
    /\ (pc = "psi_second_ack" /\ Last(chan).ok) => rx = ACK_BYTE
    /\ (pc = "psi_return" /\ Len(chan) > 0 /\ Last(chan).tag = "ack2"
            /\ Last(chan).ok /\ rx # ACK_BYTE) => ret < 0

\* C3: the run reaches PSIAccepted only if the final read delivered 2 bytes
\* and they were exactly 0x00, 0xAA.
C3_FinalAckExact ==
    stage = "PSIAccepted" =>
        /\ Last(chan) = [tag |-> "final", ok |-> TRUE]
        /\ rx = PSI_ACK

\* C4: once a fatal bring-up step has failed, the run is in the cleanup
\* code (no later step is invoked) and the channel was never used.
C4_FatalStepAborts ==
    (lastcall.op \in FatalSteps /\ lastcall.failed)
        => (pc \in CleanupPositions /\ chan = <<>>)

\* C5: the operations on the boot channel are a prefix of the wire protocol
\* and every operation but the last one completed in full.
C5_WireOrderPrefix ==
    /\ \E n \in 1..(MaxPayloadWrites + 1) : IsPrefix(Tags(chan), WireOrder(n))
    /\ \A k \in 1..(Len(chan) - 1) : chan[k].ok

\* C6: the cleanup code releases exactly the resources that were acquired,
\* and nothing that was never acquired.
C6_ReleaseExactlyAcquired ==
    pc \in {"return", "exit"} =>
        /\ \A k \in 1..Len(released) : released[k].res \in acquired
        /\ \A r \in acquired : CountReleased(r) = 1

\* C7: when every answer of the environment is the good one, the run that
\* terminated reached PSIAccepted and released each of the four resources
\* exactly once.
C7_NominalRunDone ==
    (pc = "exit" /\ nominal) =>
        /\ stage = "PSIAccepted"
        /\ Len(released) = 4
        /\ \A r \in Resources : CountReleased(r) = 1
        /\ open_fds = {0, 1, 2}
C7_Witness ==
    /\ pc = "exit"
    /\ nominal
    /\ polls = MaxPolls
    /\ CountTag("drain") = DRAIN_COUNT

\* C8: main() returns a success status exactly when the run reached
\* PSIAccepted, and a failure status when it terminated early.
C8_ExitStatusReflectsOutcome ==
    pc = "exit" =>
        IF stage = "PSIAccepted" THEN IsSuccessStatus(exit_status)
        ELSE IsFailureStatus(exit_status)

\* C9: from the state reached by a failed tolerant bring-up step, the next
\* step of the run invokes the bring-up step that follows it in the order.
C9_TolerantStepContinues ==
    [][(lastcall.op \in TolerantSteps /\ lastcall.failed)
          => ctl' = Append(ctl, BringUpOrder[Len(ctl) + 1])]_vars
C9_Witness ==
    /\ lastcall.op = "link_active"
    /\ lastcall.failed
    /\ pc = "ehci_on"
    /\ ctl = SubSeq(BringUpOrder, 1, 4)

\* C10: main() returns only from the end of the cleanup code, after the
\* cleanup code ran exactly once, and nothing happens between the cleanup
\* and the return.
C10_SingleCleanupExit ==
    [][/\ (pc' = "exit" => (pc = "return" /\ cleanups = 1 /\ cleanups' = 1
                            /\ UNCHANGED <<resv, ctlv, chanv, released>>))
       /\ (cleanups' # cleanups => (cleanups = 0 /\ pc' = "return"))
       /\ (pc = "return" => pc' = "exit")]_vars
C10_Witness ==
    /\ pc = "exit"
    /\ cleanups = 1
    /\ stage = "LinkReady"
    /\ Len(released) = 4
BitOf(v, b) == (v \div (2 ^ b)) % 2
RangeParity(img, offset, length, b) ==
    Cardinality({k \in (offset + 1)..(offset + length) : BitOf(img[k], b) = 1})
        % 2
RECURSIVE ParityByte(_, _, _, _)
ParityByte(img, offset, length, b) ==
    IF b > 7 THEN 0
    ELSE RangeParity(img, offset, length, b) * (2 ^ b)
             + ParityByte(img, offset, length, b + 1)

\* C12: the checksum is the exclusive or of exactly the bytes of the range
\* [offset, offset + length): it is 0 for an empty range and 0 for the
\* range 1, 2, 3, and it does not depend on the bytes outside the range.
C12_ChecksumIsRangeXor ==
    fout.kind = "crc" =>
        /\ fout.crc = ParityByte(fin.image, fin.offset, fin.length, 0)
        /\ (fin.length = 0 => fout.crc = 0)
        /\ (SubSeq(fin.image, fin.offset + 1, fin.offset + fin.length)
               = <<1, 2, 3>> => fout.crc = 0)
C12_Witness ==
    /\ fout.kind = "crc"
    /\ fin.image = <<255, 2, 3>>
    /\ fin.offset = 1
    /\ fin.length = 2
    /\ fout.crc = 1

\* C13: once the image is mapped, every component of the layout lies inside
\* the RADIO_MAP_SIZE bytes of the mapping.
C13_ComponentsInsideMap ==
    radio_data = "MAPPED" =>
        \A c \in DOMAIN i9100_radio_parts :
            i9100_radio_parts[c].offset + i9100_radio_parts[c].length
                <= RADIO_MAP_SIZE
PayloadEntries == {k \in 1..Len(chan) : chan[k].tag = "payload"}
PayloadEnd == PSI_OFFSET + PSI_LENGTH

\* C14: as long as no payload write has returned an error, every payload
\* write asks for no more than the bytes still unsent and offers no byte
\* beyond offset + length, and when the loop has ended the channel has
\* accepted exactly length payload bytes.
C14_PayloadExactlyOnce ==
    /\ \A k \in PayloadEntries :
          (\A j \in PayloadEntries : j < k => chan[j].ok) =>
              /\ chan[k].from >= PSI_OFFSET
              /\ chan[k].from + chan[k].req <= PayloadEnd
    /\ ((pc = "psi_crc" \/ CountTag("crc") > 0)
            /\ \A k \in PayloadEntries : chan[k].ok) => sent = PSI_LENGTH

\* C15: a payload write with a negative result is the last operation of
\* the upload: the cursor keeps its value, no further payload or checksum
\* write follows and send_PSI returns a negative value.
C15_NegativePayloadWriteAborts ==
    \A k \in PayloadEntries :
        ~chan[k].ok =>
            /\ k = Len(chan)
            /\ start = chan[k].from
            /\ pc \in {"psi_return", "fail", "return", "exit"}
            /\ (pc = "psi_return" => ret < 0)

\* C16: the PSI header is written only after each of the two handshake
\* reads delivered exactly 1 byte.
C16_HandshakeReadsComplete ==
    (pc = "psi_header" \/ CountTag("hdr") > 0) =>
        /\ chan[2] = [tag |-> "id1", ok |-> TRUE]
        /\ chan[3] = [tag |-> "id2", ok |-> TRUE]
\* C17: a poll leaves the loop of i9100_wait_link_ready only on the result
\* 1, after which the sync pattern is written, or on a negative result,
\* after which the run is in the cleanup code; every other result leaves
\* the run in the loop.  The channel is used only after the result 1.
C17_PollLoopExits ==
    /\ [](chan # <<>> =>
            lastcall = [op |-> "link_connected", res |-> 1, failed |-> FALSE])
    /\ [][pc = "wait_link" =>
            /\ lastcall'.op = "link_connected"
            /\ (pc' = "write_sync" <=> lastcall'.res = 1)
            /\ (pc' = "fail" <=> lastcall'.res < 0)
            /\ (pc' = "wait_link" <=>
                    (lastcall'.res >= 0 /\ lastcall'.res # 1))]_vars
C17_Witness ==
    /\ pc = "wait_link"
    /\ polls = MaxPolls
    /\ lastcall = [op |-> "link_connected", res |-> 2, failed |-> FALSE]

\* C18: the set-calls are issued in the fixed order, each at most once, the
\* polls come after all six, and chip power ON is issued only after link
\* power ON returned a non-negative result.
C18_ControlCallOrder ==
    /\ [](/\ IsPrefix(ctl, BringUpOrder)
          /\ (polls > 0 => ctl = BringUpOrder))
    /\ [][(ctl' # ctl /\ Last(ctl') = "chip_power_on") =>
            (lastcall.op = "link_power_on" /\ lastcall.res >= 0)]_vars
C18_Witness ==
    /\ pc = "wait_link"
    /\ ctl = BringUpOrder
    /\ polls = 1

ReleaseOrder(rel) == [k \in 1..Len(rel) |-> rel[k].res]

\* C19: when all four resources were acquired, the cleanup code releases
\* them in the reverse of the order of acquisition.
C19_ReverseReleaseOrder ==
    (pc \in {"return", "exit"} /\ acquired = Resources) =>
        ReleaseOrder(released)
            = <<"link_fd", "boot_fd", "radio_data", "radio_fd">>

\* C20: the cleanup code and the return issue no device-control call, so a
\* run that ends after chip power ON succeeded has issued no call after
\* link ACTIVE, link power ON and chip power ON.
C20_CleanupKeepsPower ==
    /\ [][(pc \in {"fail", "return"}) => UNCHANGED ctlv]_vars
    /\ []((pc = "exit" /\ stage \in {"PoweredUp", "LinkReady", "Handshaked",
                                      "PSISent", "PSIAccepted"})
             => ctl = BringUpOrder)
C20_Witness ==
    /\ pc = "exit"
    /\ stage = "PoweredUp"
    /\ lastcall.op = "link_connected"
    /\ lastcall.failed
    /\ Last(ctl) = "chip_power_on"
====
